---- MODULE Spec2Model ----
(***************************************************************************)
(* State-machine model of the shopping-assistant request handler           *)
(* process_query, in its two variants:                                     *)
(*   "table"  : src/src/shoppingmateservice/main.py (fixed in-memory       *)
(*              catalog, search_products_in_mock_db)                       *)
(*   "vector" : src/src/shoppingmateservice/shoppingMate.py (vector store) *)
(* Strings are TLA+ strings; text operations (lower-casing, substring      *)
(* search, the price regular expression) are computed character by         *)
(* character.  A price is a pair units/nanos, compared exactly.            *)
(***************************************************************************)
EXTENDS Integers, Sequences, FiniteSets, TLC

(***************************************************************************)
(* Bounds of the model.                                                    *)
(***************************************************************************)
\* longest array of actions a language-model reply carries
MaxActions == 2

(***************************************************************************)
(* Text helpers (Python str methods and operators).                        *)
(***************************************************************************)
\* one character of str.lower()
LowerChar(c) ==
    CASE c = "A" -> "a" [] c = "B" -> "b" [] c = "C" -> "c" [] c = "D" -> "d"
      [] c = "E" -> "e" [] c = "F" -> "f" [] c = "G" -> "g" [] c = "H" -> "h"
      [] c = "I" -> "i" [] c = "J" -> "j" [] c = "K" -> "k" [] c = "L" -> "l"
      [] c = "M" -> "m" [] c = "N" -> "n" [] c = "O" -> "o" [] c = "P" -> "p"
      [] c = "Q" -> "q" [] c = "R" -> "r" [] c = "S" -> "s" [] c = "T" -> "t"
      [] c = "U" -> "u" [] c = "V" -> "v" [] c = "W" -> "w" [] c = "X" -> "x"
      [] c = "Y" -> "y" [] c = "Z" -> "z" [] OTHER -> c

\* one character of str.upper()
UpperChar(c) ==
    CASE c = "a" -> "A" [] c = "b" -> "B" [] c = "c" -> "C" [] c = "d" -> "D"
      [] c = "e" -> "E" [] c = "f" -> "F" [] c = "g" -> "G" [] c = "h" -> "H"
      [] c = "i" -> "I" [] c = "j" -> "J" [] c = "k" -> "K" [] c = "l" -> "L"
      [] c = "m" -> "M" [] c = "n" -> "N" [] c = "o" -> "O" [] c = "p" -> "P"
      [] c = "q" -> "Q" [] c = "r" -> "R" [] c = "s" -> "S" [] c = "t" -> "T"
      [] c = "u" -> "U" [] c = "v" -> "V" [] c = "w" -> "W" [] c = "x" -> "X"
      [] c = "y" -> "Y" [] c = "z" -> "Z" [] OTHER -> c

CharAt(s, i) == SubSeq(s, i, i)

RECURSIVE Lower(_)
\* str.lower()
Lower(s) ==
    IF Len(s) = 0 THEN ""
    ELSE LowerChar(CharAt(s, 1)) \o Lower(SubSeq(s, 2, Len(s)))

RECURSIVE Upper(_)
\* str.upper()
Upper(s) ==
    IF Len(s) = 0 THEN ""
    ELSE UpperChar(CharAt(s, 1)) \o Upper(SubSeq(s, 2, Len(s)))

\* needle occurs in hay at position i
MatchAt(hay, i, needle) ==
    /\ i >= 1
    /\ i + Len(needle) - 1 <= Len(hay)
    /\ SubSeq(hay, i, i + Len(needle) - 1) = needle

\* Python's `needle in hay` for strings (the empty string is in every string)
Contains(hay, needle) ==
    \E i \in 1..(Len(hay) + 1) : MatchAt(hay, i, needle)

RECURSIVE JoinIds(_)
\* ', '.join(ids) for a list of strings
JoinIds(ids) ==
    IF Len(ids) = 0 THEN ""
    ELSE IF Len(ids) = 1 THEN ids[1]
    ELSE ids[1] \o ", " \o JoinIds(Tail(ids))

(***************************************************************************)
(* Prices: whole units and nano units, as the catalog stores them.         *)
(***************************************************************************)
Price(u, n) == [units |-> u, nanos |-> n]

\* p < q
PriceLess(p, q) ==
    \/ p.units < q.units
    \/ p.units = q.units /\ p.nanos < q.nanos

(***************************************************************************)
(* Optional values: Python's None / absent dictionary key.                 *)
(***************************************************************************)
NoStr == [has |-> FALSE, v |-> ""]
SomeStr(s) == [has |-> TRUE, v |-> s]
NoInt == [has |-> FALSE, v |-> 0]
SomeInt(n) == [has |-> TRUE, v |-> n]
NoPrice == [has |-> FALSE, v |-> Price(0, 0)]
SomePrice(p) == [has |-> TRUE, v |-> p]

\* truth value of an optional string: None and "" are falsy
TruthyStr(o) == o.has /\ o.v # ""
\* truth value of an optional number: None and 0 are falsy
TruthyInt(o) == o.has /\ o.v # 0

(***************************************************************************)
(* The fixed catalog of the table variant.                                 *)
(***************************************************************************)
MOCK_DATABASE == <<
    [id |-> "OLJCESPC7Z", name |-> "Sunglasses",
     price_usd_units |-> 19, price_usd_nanos |-> 990000000,
     price_usd_currency_code |-> "USD",
     description |-> "Add a modern touch to your outfits with these sleek aviator sunglasses."],
    [id |-> "66VCHSJNUP", name |-> "Tank Top",
     price_usd_units |-> 18, price_usd_nanos |-> 990000000,
     price_usd_currency_code |-> "USD",
     description |-> "Perfectly cropped cotton tank, with a scooped neckline."],
    [id |-> "1YMWWN1N4O", name |-> "Watch",
     price_usd_units |-> 109, price_usd_nanos |-> 990000000,
     price_usd_currency_code |-> "USD",
     description |-> "This gold-tone stainless steel watch will work with most of your outfits."],
    [id |-> "L9ECAV7KIM", name |-> "Loafers",
     price_usd_units |-> 89, price_usd_nanos |-> 990000000,
     price_usd_currency_code |-> "USD",
     description |-> "A neat addition to your summer wardrobe."],
    [id |-> "2ZYFJ3GM2N", name |-> "Hairdryer",
     price_usd_units |-> 24, price_usd_nanos |-> 990000000,
     price_usd_currency_code |-> "USD",
     description |-> "This lightweight hairdryer has 3 heat and speed settings. It's perfect for travel."],
    [id |-> "0PUK6V6EV0", name |-> "Candle Holder",
     price_usd_units |-> 18, price_usd_nanos |-> 990000000,
     price_usd_currency_code |-> "USD",
     description |-> "This small but intricate candle holder is an excellent gift."],
    [id |-> "LS4PSXUNUM", name |-> "Salt & Pepper Shakers",
     price_usd_units |-> 18, price_usd_nanos |-> 490000000,
     price_usd_currency_code |-> "USD",
     description |-> "Add some flavor to your kitchen."],
    [id |-> "9SIQT8TOJO", name |-> "Bamboo Glass Jar",
     price_usd_units |-> 5, price_usd_nanos |-> 490000000,
     price_usd_currency_code |-> "USD",
     description |-> "This bamboo glass jar can hold 57 oz (1.7 l) and is perfect for any kitchen."],
    [id |-> "6E92ZMYYFZ", name |-> "Mug",
     price_usd_units |-> 8, price_usd_nanos |-> 990000000,
     price_usd_currency_code |-> "USD",
     description |-> "A simple mug with a mustard interior."]
>>

\* product_price_float of one catalog entry
ProductPrice(product) == Price(product.price_usd_units, product.price_usd_nanos)

\* match_text of one catalog entry
MatchText(product, query_text) ==
    IF TruthyStr(query_text)
    THEN \/ Contains(Lower(product.id), Lower(query_text.v))
         \/ Contains(Lower(product.name), Lower(query_text.v))
         \/ Contains(Lower(product.description), Lower(query_text.v))
    ELSE TRUE

\* as MatchPrice, but the currency of the entry is not looked at
MatchPriceAnyCurrency(product, price_min, price_max, currency_code) ==
    /\ price_min.has => ~ PriceLess(ProductPrice(product), price_min.v)
    /\ price_max.has => ~ PriceLess(price_max.v, ProductPrice(product))

\* match_price of one catalog entry
MatchPrice(product, price_min, price_max, currency_code) ==
    /\ price_min.has =>
         ~ (\/ PriceLess(ProductPrice(product), price_min.v)
            \/ product.price_usd_currency_code # currency_code)
    /\ price_max.has =>
         ~ (\/ PriceLess(price_max.v, ProductPrice(product))
            \/ product.price_usd_currency_code # currency_code)

\* match_gift of one catalog entry
MatchGift(product, gender, age, preferences) ==
    /\ TruthyStr(gender) =>
         ~ (/\ ~ Contains(Lower(product.description), Lower(gender.v))
            /\ ~ Contains(Lower(product.name), Lower(gender.v)))
    /\ TruthyInt(age) =>
         ~ (\/ age.v < 18 /\ Contains(Lower(product.description), "adult")
            \/ age.v >= 18 /\ Contains(Lower(product.description), "kid"))
    /\ TruthyStr(preferences) =>
         ~ (/\ ~ Contains(Lower(product.description), Lower(preferences.v))
            /\ ~ Contains(Lower(product.name), Lower(preferences.v)))

RECURSIVE IdsOf(_)
\* the ids of a list of catalog entries, in order
IdsOf(products) ==
    IF Len(products) = 0 THEN <<>>
    ELSE <<products[1].id>> \o IdsOf(Tail(products))

\* the in-memory product search of the table variant
search_products_in_mock_db(query_text, price_min, price_max, currency_code, gender, age, preferences) ==
    LET keep(product) ==
            /\ MatchText(product, query_text)
            /\ MatchPrice(product, price_min, price_max, currency_code)
            /\ MatchGift(product, gender, age, preferences)
    IN  IdsOf(SelectSeq(MOCK_DATABASE, keep))

(***************************************************************************)
(* Price extraction: re.search of                                          *)
(*   (under|over)\s*(\d+(\.\d+)?)\s*(USD|EUR|JPY|GBP|TRY|CAD)?             *)
(* with re.IGNORECASE, computed as the regular-expression engine does:     *)
(* leftmost start, greedy repetitions.                                     *)
(***************************************************************************)
IsDigit(c) == c \in {"0", "1", "2", "3", "4", "5", "6", "7", "8", "9"}
IsSpace(c) == c \in {" ", "\t", "\n", "\r"}

DigitVal(c) ==
    CASE c = "0" -> 0 [] c = "1" -> 1 [] c = "2" -> 2 [] c = "3" -> 3
      [] c = "4" -> 4 [] c = "5" -> 5 [] c = "6" -> 6 [] c = "7" -> 7
      [] c = "8" -> 8 [] c = "9" -> 9

\* the currency codes of the pattern's last group
CurrencyCodes == {"USD", "EUR", "JPY", "GBP", "TRY", "CAD"}

RECURSIVE DigitsEnd(_, _)
\* \d* from position i: the position after the longest run of digits
DigitsEnd(s, i) ==
    IF i <= Len(s) /\ IsDigit(CharAt(s, i)) THEN DigitsEnd(s, i + 1) ELSE i

RECURSIVE SpacesEnd(_, _)
\* \s* from position i: the position after the longest run of white space
SpacesEnd(s, i) ==
    IF i <= Len(s) /\ IsSpace(CharAt(s, i)) THEN SpacesEnd(s, i + 1) ELSE i

RECURSIVE ParseDigits(_, _)
\* the number a digit string denotes, after the digits read so far (acc)
ParseDigits(s, acc) ==
    IF Len(s) = 0 THEN acc
    ELSE ParseDigits(SubSeq(s, 2, Len(s)), 10 * acc + DigitVal(CharAt(s, 1)))

RECURSIVE PadNanos(_, _)
\* a fraction's digits as nano units: nine digits, padded with zeros
PadNanos(n, len) == IF len >= 9 THEN n ELSE PadNanos(10 * n, len + 1)

\* float(group 2): the whole part and the fraction (at most nine digits kept)
ParseAmount(whole, frac) ==
    LET f == IF Len(frac) > 9 THEN SubSeq(frac, 1, 9) ELSE frac
    IN  Price(ParseDigits(whole, 0), PadNanos(ParseDigits(f, 0), Len(f)))

\* as KeywordAt, but without re.IGNORECASE
KeywordAtExact(s, i) ==
    IF i + 4 <= Len(s) /\ SubSeq(s, i, i + 4) = "under" THEN "under"
    ELSE IF i + 3 <= Len(s) /\ SubSeq(s, i, i + 3) = "over" THEN "over"
    ELSE ""

\* group 1 at position i: "under", "over" or "" when neither is there
KeywordAt(s, i) ==
    IF i + 4 <= Len(s) /\ Lower(SubSeq(s, i, i + 4)) = "under" THEN "under"
    ELSE IF i + 3 <= Len(s) /\ Lower(SubSeq(s, i, i + 3)) = "over" THEN "over"
    ELSE ""

\* the match of the pattern that starts at position i
PriceMatchAt(s, i) ==
    LET kw == KeywordAt(s, i)
        b == SpacesEnd(s, i + Len(kw))
        c == DigitsEnd(s, b)
        d == IF /\ c <= Len(s)
                /\ CharAt(s, c) = "."
                /\ DigitsEnd(s, c + 1) > c + 1
             THEN DigitsEnd(s, c + 1) ELSE c
        e == SpacesEnd(s, d)
        hasCode == e + 2 <= Len(s) /\ Upper(SubSeq(s, e, e + 2)) \in CurrencyCodes
    IN  [matched |-> kw # "" /\ c > b,
         direction |-> kw,
         amount |-> IF kw # "" /\ c > b
                    THEN ParseAmount(SubSeq(s, b, c - 1),
                                     IF d > c THEN SubSeq(s, c + 1, d - 1) ELSE "")
                    ELSE Price(0, 0),
         code |-> IF hasCode THEN SomeStr(SubSeq(s, e, e + 2)) ELSE NoStr]

\* the match at the least of the start positions that have one
LeftmostMatch(s, starts) ==
    IF starts = {} THEN [matched |-> FALSE, direction |-> "",
                         amount |-> Price(0, 0), code |-> NoStr]
    ELSE PriceMatchAt(s, CHOOSE i \in starts : \A j \in starts : i <= j)

\* re.search: the match at the leftmost position that has one
PriceSearch(s) == LeftmostMatch(s, {i \in 1..Len(s) : PriceMatchAt(s, i).matched})

\* price_min, price_max and currency_code from the match object
PriceBounds(price_match) ==
    [price_min |-> IF price_match.matched /\ price_match.direction = "over"
                   THEN SomePrice(price_match.amount) ELSE NoPrice,
     price_max |-> IF price_match.matched /\ price_match.direction = "under"
                   THEN SomePrice(price_match.amount) ELSE NoPrice,
     currency_code |-> IF price_match.matched /\ price_match.code.has
                       THEN Upper(price_match.code.v) ELSE "USD"]

\* price_min, price_max and currency_code of a search query
ExtractPrice(query) == PriceBounds(PriceSearch(query))

(***************************************************************************)
(* JSON values the handler sees.                                           *)
(*   product_ids : absent, a list of items, or a non-list value (a number) *)
(*   item        : an identifier string, or an inline product object       *)
(*   person_details : absent, a dictionary, or a non-dictionary value      *)
(* An action object is a dictionary with the keys the handler reads and    *)
(* `rest`, which stands for every key it never reads (quantity, context).  *)
(***************************************************************************)
IdItem(s) == [obj |-> FALSE, id |-> s]
ObjItem(s) == [obj |-> TRUE, id |-> s]

NoPids == [kind |-> "absent", v |-> <<>>]
ListPids(items) == [kind |-> "list", v |-> items]
ScalarPids == [kind |-> "scalar", v |-> <<>>]

\* a list of identifier strings as a product_ids value
IdList(ids) == ListPids([i \in 1..Len(ids) |-> IdItem(ids[i])])

NoDetails == [kind |-> "absent", gender |-> NoStr, age |-> NoInt, preferences |-> NoStr]
Details(g, a, p) == [kind |-> "dict", gender |-> g, age |-> a, preferences |-> p]
BadDetails == [kind |-> "other", gender |-> NoStr, age |-> NoInt, preferences |-> NoStr]

ActionObject(task, query, pids, message, details, rest) ==
    [isdict |-> TRUE, task |-> task, query |-> query, product_ids |-> pids,
     message |-> message, person_details |-> details, rest |-> rest]

\* an array element that is not a dictionary (a string, a number, null)
NonDict ==
    [isdict |-> FALSE, task |-> NoStr, query |-> NoStr, product_ids |-> NoPids,
     message |-> NoStr, person_details |-> NoDetails, rest |-> ""]

\* {"task": "response", "message": msg}
ResponseAction(msg) ==
    ActionObject(SomeStr("response"), NoStr, NoPids, SomeStr(msg), NoDetails, "")

\* truth value of a product_ids value: absent and [] are falsy
TruthyPids(p) == p.kind = "scalar" \/ (p.kind = "list" /\ Len(p.v) > 0)

\* ', '.join(product_ids) raises TypeError: not iterable, or an item is no string
JoinRaises(p) == p.kind # "list" \/ \E i \in 1..Len(p.v) : p.v[i].obj

\* the identifier strings of a list of items
ItemIds(items) == [i \in 1..Len(items) |-> items[i].id]

DigitStr(d) ==
    CASE d = 0 -> "0" [] d = 1 -> "1" [] d = 2 -> "2" [] d = 3 -> "3"
      [] d = 4 -> "4" [] d = 5 -> "5" [] d = 6 -> "6" [] d = 7 -> "7"
      [] d = 8 -> "8" [] d = 9 -> "9"

RECURSIVE IntStr(_)
\* str(n) for a natural number, as an f-string formats it
IntStr(n) == IF n < 10 THEN DigitStr(n) ELSE IntStr(n \div 10) \o DigitStr(n % 10)

(***************************************************************************)
(* Messages of the handler.                                                *)
(***************************************************************************)
VisionOkMsg(room) == "I see a room with a " \o room \o " style."
VisionFailMsg == "I had trouble processing the image. Please try again or describe the room."
DecodeErrorMsg == "I apologize, I had trouble understanding that. Could you please rephrase?"
NotArrayMsg == "I received an unexpected response format. Please try again."
InternalErrorMsg == "An internal error occurred. Please try again later."
SearchFoundMsg(query, ids) ==
    "I found some products related to '" \o query \o "'. Here are their IDs: " \o JoinIds(ids)
SearchNoneMsg(query) == "I couldn't find any products related to '" \o query \o "'."
GiftFoundMsg(age, gender, preferences, ids) ==
    "Here are some gift recommendations for a " \o IntStr(age) \o " year old " \o gender
      \o " with preferences for " \o preferences \o ": " \o JoinIds(ids)
GiftNoneMsg == "I couldn't find specific gift recommendations based on the details provided."
AskGenderMsg == "To recommend a gift, I need to know the recipient's gender. What is their gender?"
AskAgeMsg == "What is their age?"
AskPreferencesMsg == "What are their preferences (e.g., hobbies, interests)?"
RecommendMsg == "I can recommend some popular products for you."
CompareMsg(ids) == "Here are the products you asked to compare: " \o JoinIds(ids)
EmptyCartMsg == "Your cart has been emptied."

(***************************************************************************)
(* The body of the loop over the parsed actions.  Each operator returns    *)
(*   raised  : the body raised an exception                                *)
(*   action  : the action as the body leaves it (appended when not raised) *)
(*   lookups : the catalog lookups the body made                           *)
(***************************************************************************)
Done(a, lookups) == [raised |-> FALSE, action |-> a, lookups |-> lookups]
Raised(a, lookups) == [raised |-> TRUE, action |-> a, lookups |-> lookups]

\* one catalog lookup: its arguments and the identifiers it returned
Lookup(backend, query_text, px, gender, age, preferences, k, result) ==
    [backend |-> backend, query_text |-> query_text,
     price_min |-> px.price_min, price_max |-> px.price_max,
     currency_code |-> px.currency_code,
     gender |-> gender, age |-> age, preferences |-> preferences,
     k |-> k, result |-> result]

\* no price constraint, default currency
NoBounds == [price_min |-> NoPrice, price_max |-> NoPrice, currency_code |-> "USD"]

\* if not action.get("message"): action["message"] = msg
DefaultMessage(a, msg) ==
    IF TruthyStr(a.message) THEN a ELSE [a EXCEPT !.message = SomeStr(msg)]

\* action.get("query", "")
QueryOf(a) == IF a.query.has THEN a.query.v ELSE ""

\* the search branch once the identifiers are resolved: overwrite
\* product_ids, supply a message if there is none
SearchResolved(a, backend, query, px, k, found_product_ids) ==
    Done(DefaultMessage([a EXCEPT !.product_ids = IdList(found_product_ids)],
                        IF Len(found_product_ids) > 0
                        THEN SearchFoundMsg(query, found_product_ids)
                        ELSE SearchNoneMsg(query)),
         <<Lookup(backend, SomeStr(query), px, NoStr, NoInt, NoStr, k,
                  found_product_ids)>>)

\* as SearchLookupTable, but a query with a price phrase is not used as text
SearchLookupTableBoundsOnly(query, px) ==
    search_products_in_mock_db(IF px.price_min.has \/ px.price_max.has
                               THEN NoStr ELSE SomeStr(query),
                               px.price_min, px.price_max,
                               px.currency_code, NoStr, NoInt, NoStr)

\* the table lookup of a search query with its extracted price bounds
SearchLookupTable(query, px) ==
    search_products_in_mock_db(SomeStr(query), px.price_min, px.price_max,
                               px.currency_code, NoStr, NoInt, NoStr)

\* the search branch, table variant, for an extracted price constraint
SearchTableWith(a, query, px) ==
    SearchResolved(a, "table", query, px, 0, SearchLookupTable(query, px))

\* task == "search", table variant
SearchTable(a) == SearchTableWith(a, QueryOf(a), ExtractPrice(QueryOf(a)))

\* person_details incomplete: ask for the first missing detail
GiftIncomplete(a) ==
    LET pd == a.person_details
        msg == IF ~ TruthyStr(pd.gender) THEN SomeStr(AskGenderMsg)
               ELSE IF ~ TruthyInt(pd.age) THEN SomeStr(AskAgeMsg)
               ELSE IF ~ TruthyStr(pd.preferences) THEN SomeStr(AskPreferencesMsg)
               ELSE a.message
    IN  [a EXCEPT !.product_ids = IdList(<<>>),
                  !.message = msg,
                  !.task = SomeStr("response")]

\* gender and age and preferences
DetailsComplete(pd) ==
    TruthyStr(pd.gender) /\ TruthyInt(pd.age) /\ TruthyStr(pd.preferences)

\* as GiftComplete, but the model's product_ids are kept
GiftCompleteKeepsIds(a, gift_product_ids) ==
    DefaultMessage(a, IF Len(gift_product_ids) > 0
                      THEN GiftFoundMsg(a.person_details.age.v, a.person_details.gender.v,
                                        a.person_details.preferences.v, gift_product_ids)
                      ELSE GiftNoneMsg)

\* person_details present with all three details: set ids and message
GiftComplete(a, gift_product_ids) ==
    LET pd == a.person_details
    IN  DefaultMessage([a EXCEPT !.product_ids = IdList(gift_product_ids)],
                       IF Len(gift_product_ids) > 0
                       THEN GiftFoundMsg(pd.age.v, pd.gender.v, pd.preferences.v,
                                         gift_product_ids)
                       ELSE GiftNoneMsg)

\* the gift branch once the identifiers are resolved
GiftResolved(a, backend, query_text, k, gift_product_ids) ==
    Done(GiftComplete(a, gift_product_ids),
         <<Lookup(backend, query_text, NoBounds, a.person_details.gender,
                  a.person_details.age, a.person_details.preferences, k,
                  gift_product_ids)>>)

\* the table lookup of the gift branch
GiftLookupTable(pd) ==
    search_products_in_mock_db(NoStr, NoPrice, NoPrice, "USD",
                               pd.gender, pd.age, pd.preferences)

\* task == "gift-recommendation", table variant
GiftTable(a) ==
    IF a.person_details.kind = "other" THEN Raised(a, <<>>)
    ELSE IF DetailsComplete(a.person_details)
    THEN GiftResolved(a, "table", NoStr, 0, GiftLookupTable(a.person_details))
    ELSE Done(GiftIncomplete(a), <<>>)

\* task == "recommend"
Recommend(a) == DefaultMessage([a EXCEPT !.product_ids = IdList(<<>>)], RecommendMsg)

\* the guard of the compare branch: task == "compare" and action.get("product_ids")
IsCompare(a) == a.task = SomeStr("compare") /\ TruthyPids(a.product_ids)

\* task == "compare" with product ids
Compare(a) ==
    IF TruthyStr(a.message) THEN Done(a, <<>>)
    ELSE IF JoinRaises(a.product_ids) THEN Raised(a, <<>>)
    ELSE Done([a EXCEPT !.message = SomeStr(CompareMsg(ItemIds(a.product_ids.v)))], <<>>)

\* task == "empty-cart"
EmptyCart(a) ==
    [a EXCEPT !.message = IF a.message.has THEN a.message ELSE SomeStr(EmptyCartMsg),
              !.product_ids = IdList(<<>>)]

\* as ProcessActionTable, but the last branch catches every remaining task
ProcessActionTableClearsIds(a) ==
    IF ~ a.isdict THEN Raised(a, <<>>)
    ELSE IF a.task = SomeStr("search") THEN SearchTable(a)
    ELSE IF a.task = SomeStr("gift-recommendation") THEN GiftTable(a)
    ELSE IF a.task = SomeStr("recommend") THEN Done(Recommend(a), <<>>)
    ELSE IF IsCompare(a) THEN Compare(a)
    ELSE Done(EmptyCart(a), <<>>)

\* one iteration of the loop, table variant
ProcessActionTable(a) ==
    IF ~ a.isdict THEN Raised(a, <<>>)
    ELSE IF a.task = SomeStr("search") THEN SearchTable(a)
    ELSE IF a.task = SomeStr("gift-recommendation") THEN GiftTable(a)
    ELSE IF a.task = SomeStr("recommend") THEN Done(Recommend(a), <<>>)
    ELSE IF IsCompare(a) THEN Compare(a)
    ELSE IF a.task = SomeStr("empty-cart") THEN Done(EmptyCart(a), <<>>)
    ELSE Done(a, <<>>)

(***************************************************************************)
(* The vector-store variant.  The store is external: one call of           *)
(* similarity_search either raises or returns the first k documents of     *)
(* the store's ranking for the query.                                      *)
(***************************************************************************)
Doc(id, u, n, code) ==
    [id |-> id, price_usd_units |-> u, price_usd_nanos |-> n,
     price_usd_currency_code |-> code]

\* the outcome of one call: raises, or a ranking of documents
CallFails == [ok |-> FALSE, ranking |-> <<>>]
CallReturns(ranking) == [ok |-> TRUE, ranking |-> ranking]

\* vectorstore.similarity_search(query, k): the k best of the ranking
similarity_search(ranking, k) ==
    IF Len(ranking) <= k THEN ranking ELSE SubSeq(ranking, 1, k)

\* as DocPasses, but the stored currency is not compared
DocPassesAnyCurrency(doc, price_min, price_max, currency_code) ==
    LET current_product_price == Price(doc.price_usd_units, doc.price_usd_nanos)
    IN  \/ /\ ~ price_min.has \/ ~ PriceLess(current_product_price, price_min.v)
           /\ ~ price_max.has \/ ~ PriceLess(price_max.v, current_product_price)
        \/ ~ price_min.has /\ ~ price_max.has

\* the price post-filter on one search result
DocPasses(doc, price_min, price_max, currency_code) ==
    LET current_product_price == Price(doc.price_usd_units, doc.price_usd_nanos)
    IN  \/ /\ ~ price_min.has \/ ~ PriceLess(current_product_price, price_min.v)
           /\ ~ price_max.has \/ ~ PriceLess(price_max.v, current_product_price)
           /\ doc.price_usd_currency_code = currency_code
        \/ ~ price_min.has /\ ~ price_max.has

\* filtered_product_ids
FilterDocs(search_results, price_min, price_max, currency_code) ==
    LET keep(doc) == DocPasses(doc, price_min, price_max, currency_code)
    IN  IdsOf(SelectSeq(search_results, keep))

\* k of the search branch and of the gift branch
SearchK == 10
GiftK == 5

\* the search branch, vector variant, for an extracted price constraint
SearchVectorWith(a, query, px, search_results) ==
    SearchResolved(a, "vector", query, px, SearchK,
                   FilterDocs(search_results, px.price_min, px.price_max,
                              px.currency_code))

\* task == "search", vector variant
SearchVector(a, outcome) ==
    IF ~ outcome.ok THEN Raised(a, <<>>)
    ELSE SearchVectorWith(a, QueryOf(a), ExtractPrice(QueryOf(a)),
                          similarity_search(outcome.ranking, SearchK))

\* gift_query
GiftQuery(pd) ==
    "gift for " \o IntStr(pd.age.v) \o " year old " \o pd.gender.v
      \o " with preferences for " \o pd.preferences.v

\* task == "gift-recommendation", vector variant
GiftVector(a, outcome) ==
    IF a.person_details.kind = "other" THEN Raised(a, <<>>)
    ELSE IF DetailsComplete(a.person_details)
    THEN IF ~ outcome.ok THEN Raised(a, <<>>)
         ELSE GiftResolved(a, "vector", SomeStr(GiftQuery(a.person_details)), GiftK,
                           IdsOf(similarity_search(outcome.ranking, GiftK)))
    ELSE Done(GiftIncomplete(a), <<>>)

\* the body calls similarity_search for this action
CallsStore(a, vs) ==
    /\ a.isdict
    /\ vs
    /\ \/ a.task = SomeStr("search")
       \/ /\ a.task = SomeStr("gift-recommendation")
          /\ a.person_details.kind # "other"
          /\ DetailsComplete(a.person_details)

\* one iteration of the loop, vector variant; vs: vectorstore is not None
ProcessActionVector(a, vs, outcome) ==
    IF ~ a.isdict THEN Raised(a, <<>>)
    ELSE IF ~ vs THEN Done(a, <<>>)
    ELSE IF a.task = SomeStr("search") THEN SearchVector(a, outcome)
    ELSE IF a.task = SomeStr("gift-recommendation") THEN GiftVector(a, outcome)
    ELSE IF a.task = SomeStr("recommend") THEN Done(Recommend(a), <<>>)
    ELSE IF IsCompare(a) THEN Compare(a)
    ELSE IF a.task = SomeStr("empty-cart") THEN Done(EmptyCart(a), <<>>)
    ELSE Done(a, <<>>)

(***************************************************************************)
(* Inputs: what the language model, the vision model and the vector store  *)
(* may hand to the handler.                                                *)
(***************************************************************************)
ModelIds == ListPids(<<IdItem("X"), IdItem("Y")>>)
ModelObjects == ListPids(<<ObjItem("X")>>)

SearchActions ==
    { ActionObject(SomeStr("search"), SomeStr("watch"), ModelIds, NoStr, NoDetails, ""),
      ActionObject(SomeStr("search"), SomeStr("watch under 100"), ModelIds, NoStr, NoDetails, ""),
      ActionObject(SomeStr("search"), SomeStr("over 50 EUR"), NoPids, SomeStr("m"), NoDetails, "") }

GiftActions ==
    { ActionObject(SomeStr("gift-recommendation"), NoStr, ModelIds, SomeStr("m"),
                   Details(SomeStr("female"), NoInt, NoStr), ""),
      ActionObject(SomeStr("gift-recommendation"), NoStr, NoPids, NoStr,
                   Details(NoStr, SomeInt(30), SomeStr("kitchen")), ""),
      ActionObject(SomeStr("gift-recommendation"), NoStr, ModelIds, NoStr,
                   Details(SomeStr("female"), SomeInt(30), NoStr), ""),
      ActionObject(SomeStr("gift-recommendation"), NoStr, ModelIds, SomeStr("m"),
                   Details(SomeStr("female"), SomeInt(30), SomeStr("gift")), ""),
      ActionObject(SomeStr("gift-recommendation"), NoStr, ModelIds, NoStr,
                   Details(SomeStr("he"), SomeInt(10), SomeStr("kitchen")), ""),
      ActionObject(SomeStr("gift-recommendation"), NoStr, ModelIds, NoStr,
                   Details(SomeStr("female"), SomeInt(0), SomeStr("gift")), ""),
      ActionObject(SomeStr("gift-recommendation"), NoStr, NoPids, NoStr, BadDetails, "") }

RecommendActions ==
    { ActionObject(SomeStr("recommend"), NoStr, ModelObjects, NoStr, NoDetails, ""),
      ActionObject(SomeStr("recommend"), NoStr, NoPids, SomeStr("m"), NoDetails, "") }

EmptyCartActions ==
    { ActionObject(SomeStr("empty-cart"), NoStr, ModelIds, NoStr, NoDetails, "") }

CompareActions ==
    { ActionObject(SomeStr("compare"), NoStr, ModelIds, NoStr, NoDetails, ""),
      ActionObject(SomeStr("compare"), NoStr, IdList(<<>>), NoStr, NoDetails, ""),
      ActionObject(SomeStr("compare"), NoStr, ModelObjects, NoStr, NoDetails, ""),
      ActionObject(SomeStr("compare"), NoStr, ModelObjects, SomeStr("m"), NoDetails, "") }

OtherActions ==
    { ActionObject(SomeStr("add-to-cart"), NoStr, ModelObjects, NoStr, NoDetails, "quantity"),
      ActionObject(SomeStr("view-cart"), NoStr, NoPids, NoStr, NoDetails, ""),
      ActionObject(SomeStr("checkout"), NoStr, NoPids, NoStr, NoDetails, ""),
      ActionObject(SomeStr("update-context"), NoStr, NoPids, NoStr, NoDetails, "context"),
      ActionObject(SomeStr("response"), NoStr, NoPids, SomeStr("m"), NoDetails, "") }

\* the elements an array in the model's reply may hold
Elements ==
    SearchActions \cup GiftActions \cup RecommendActions \cup EmptyCartActions
      \cup CompareActions \cup OtherActions \cup {NonDict}

\* all sequences over S of length at most n
SeqsUpTo(S, n) == UNION {[1..m -> S] : m \in 0..n}

\* a decoded JSON value: its type and what iterating over it yields (the
\* elements of an array, the keys of an object, the characters of a string)
Json(type, items) == [type |-> type, items |-> items]

\* the reply texts: undecodable text, scalars, strings, objects, arrays
Replies ==
    { Json("invalid", <<>>), Json("null", <<>>), Json("bool", <<>>),
      Json("number", <<>>), Json("string", <<>>), Json("string", <<NonDict>>),
      Json("object", <<>>), Json("object", <<NonDict>>) }
      \cup { Json("array", items) : items \in SeqsUpTo(Elements, MaxActions) }

\* documents of the vector store
StoreDocs ==
    << Doc("A", 19, 990000000, "USD"), Doc("B", 109, 990000000, "USD"),
       Doc("C", 60, 0, "EUR") >>

\* a ranking longer than either k
LongRanking ==
    << Doc("A", 19, 990000000, "USD"), Doc("B", 109, 990000000, "USD"),
       Doc("C", 60, 0, "EUR"), Doc("D", 5, 0, "USD"), Doc("E", 6, 0, "USD"),
       Doc("F", 7, 0, "USD"), Doc("G", 8, 0, "USD"), Doc("H", 9, 0, "USD"),
       Doc("I", 10, 0, "USD"), Doc("J", 11, 0, "USD"), Doc("K", 12, 0, "USD") >>

\* the outcomes of one similarity_search call
StoreOutcomes ==
    { CallFails, CallReturns(<<>>), CallReturns(StoreDocs), CallReturns(LongRanking) }

\* the body of an inbound request, as request.json and data.get see it
Bodies == {"object", "missing", "not_json", "not_object"}

(***************************************************************************)
(* State.                                                                  *)
(***************************************************************************)
VARIABLES
    variant,          \* "table" (main.py) or "vector" (shoppingMate.py)
    vectorstore,      \* vector variant: the store handle is not None
    pc,               \* position of the process / of the handler
    image_data,       \* the request carries an image
    vision,           \* the vision call of this request: "none", "ok", "failed"
    room_description, \* the caption, "" without one
    actions,          \* the list the handler returns
    ai_output,        \* the language model's reply
    parsed_actions,   \* what the loop iterates over
    index,            \* position of the loop in parsed_actions
    lookups,          \* the catalog lookups of this request, with the index
                      \* of the action each was made for
    failure,          \* what raised into the outer except of this request:
                      \* "none", "vision", "llm", "lookup" or "other"
    call              \* a direct call of one function of the module, with its
                      \* arguments and result; NoCall while the service runs

vars == <<variant, vectorstore, pc, image_data, vision, room_description,
          actions, ai_output, parsed_actions, index, lookups, failure, call>>

\* no function is called directly
NoCall == [fn |-> "none", done |-> TRUE]

EmptyArray == Json("array", <<>>)

Init ==
    /\ variant \in {"table", "vector"}
    /\ vectorstore = FALSE
    /\ pc = "import"
    /\ image_data = FALSE
    /\ vision = "none"
    /\ room_description = ""
    /\ actions = <<>>
    /\ ai_output = EmptyArray
    /\ parsed_actions = EmptyArray
    /\ index = 1
    /\ lookups = <<>>
    /\ failure = "none"
    /\ call = NoCall

(***************************************************************************)
(* Pieces of process_query.                                                *)
(***************************************************************************)
\* the handler of the outer try: except Exception
InternalError(acts) == Append(acts, ResponseAction(InternalErrorMsg))

\* as OnDecodeError, but the name is left bound to a value that is no list
OnDecodeErrorRebinds(acts, parsed) ==
    [actions |-> Append(acts, ResponseAction(DecodeErrorMsg)),
     parsed_actions |-> Json("null", <<>>)]

\* json.loads raised JSONDecodeError: the list is left as initialized
OnDecodeError(acts, parsed) ==
    [actions |-> Append(acts, ResponseAction(DecodeErrorMsg)), parsed_actions |-> parsed]

\* json.loads returned a value that is no list: the name is already bound
\* to the value when ValueError is raised and handled
OnNotArray(acts, value) ==
    [actions |-> Append(acts, ResponseAction(NotArrayMsg)), parsed_actions |-> value]

\* the try block around json.loads
ParseOutput(acts, parsed, reply) ==
    IF reply.type = "invalid" THEN OnDecodeError(acts, parsed)
    ELSE IF reply.type # "array" THEN OnNotArray(acts, reply)
    ELSE [actions |-> acts, parsed_actions |-> reply]

\* `for action in parsed_actions` raises TypeError: the value is not iterable
NotIterable(value) == value.type \in {"null", "bool", "number"}

\* the vision call raised; continues: the handler goes on to the model call
OnVisionFailure(v, acts) ==
    IF v = "table"
    THEN [actions |-> Append(acts, ResponseAction(VisionFailMsg)), continues |-> TRUE]
    ELSE [actions |-> InternalError(acts), continues |-> FALSE]

\* the lookups of one loop iteration, tagged with the iteration's index
Tagged(i, calls) == [j \in 1..Len(calls) |-> [index |-> i, call |-> calls[j]]]

(***************************************************************************)
(* Actions.                                                                *)
(***************************************************************************)
\* module import: the vector variant fetches the password and opens the store
ModuleInit ==
    /\ pc = "import"
    /\ pc' = "idle"
    /\ \E outcome \in {"ok", "secret_failed", "store_failed"} :
         vectorstore' = (variant = "vector" /\ outcome = "ok")
    /\ UNCHANGED <<variant, image_data, vision, room_description, actions,
                   ai_output, parsed_actions, index, lookups, failure, call>>

\* a request arrives: request.json and the data.get calls, outside the try
Receive ==
    /\ pc \in {"idle", "done", "raised"}
    /\ \E b \in Bodies, img \in BOOLEAN :
         /\ image_data' = (b = "object" /\ img)
         /\ pc' = IF b # "object" THEN "raised"
                  ELSE IF img THEN "vision" ELSE "llm"
    /\ vision' = "none"
    /\ room_description' = ""
    /\ actions' = <<>>
    /\ ai_output' = EmptyArray
    /\ parsed_actions' = EmptyArray
    /\ index' = 1
    /\ lookups' = <<>>
    /\ failure' = "none"
    /\ UNCHANGED <<variant, vectorstore, call>>

\* step 1: the room description from the image
DescribeImage ==
    /\ pc = "vision"
    /\ \/ /\ vision' = "ok"
          /\ room_description' = "modern"
          /\ actions' = Append(actions, ResponseAction(VisionOkMsg("modern")))
          /\ pc' = "llm"
          /\ failure' = failure
       \/ /\ vision' = "failed"
          /\ room_description' = room_description
          /\ actions' = OnVisionFailure(variant, actions).actions
          /\ pc' = IF OnVisionFailure(variant, actions).continues THEN "llm" ELSE "done"
          /\ failure' = IF OnVisionFailure(variant, actions).continues
                        THEN failure ELSE "vision"
    /\ UNCHANGED <<variant, vectorstore, image_data, ai_output, parsed_actions,
                   index, lookups, call>>

\* step 2: the prompt and the language-model call
InvokeLlm ==
    /\ pc = "llm"
    /\ \/ \E reply \in Replies :
            /\ ai_output' = reply
            /\ actions' = actions
            /\ pc' = "parse"
            /\ failure' = failure
       \/ /\ ai_output' = ai_output
          /\ actions' = InternalError(actions)
          /\ pc' = "done"
          /\ failure' = "llm"
    /\ UNCHANGED <<variant, vectorstore, image_data, vision, room_description,
                   parsed_actions, index, lookups, call>>

\* the attempt to parse the reply
ParseReply ==
    /\ pc = "parse"
    /\ actions' = ParseOutput(actions, parsed_actions, ai_output).actions
    /\ parsed_actions' = ParseOutput(actions, parsed_actions, ai_output).parsed_actions
    /\ index' = 1
    /\ pc' = "loop"
    /\ UNCHANGED <<variant, vectorstore, image_data, vision, room_description,
                   ai_output, lookups, failure, call>>

\* the loop body in the running variant
ProcessAction(v, vs, a, outcome) ==
    IF v = "table" THEN ProcessActionTable(a) ELSE ProcessActionVector(a, vs, outcome)

\* the outcomes the store may give this iteration (one when it is not called)
StoreOutcomesFor(v, vs, a) ==
    IF v = "vector" /\ CallsStore(a, vs) THEN StoreOutcomes ELSE {CallFails}

\* what raised in an iteration with result r: the store call, or the body
Cause(v, vs, a, outcome, r) ==
    IF ~ r.raised THEN "none"
    ELSE IF v = "vector" /\ CallsStore(a, vs) /\ ~ outcome.ok THEN "lookup"
    ELSE "other"

\* as Iterate, but the except sits inside the loop, which goes on
IterateResumes(r) ==
    IF r.raised
    THEN /\ actions' = InternalError(actions)
         /\ index' = index + 1
         /\ lookups' = lookups
         /\ pc' = pc
    ELSE /\ actions' = Append(actions, r.action)
         /\ index' = index + 1
         /\ lookups' = lookups \o Tagged(index, r.lookups)
         /\ pc' = pc

\* the effect of one iteration with result r: append, or leave through except
Iterate(r) ==
    IF r.raised
    THEN /\ actions' = InternalError(actions)
         /\ pc' = "done"
         /\ UNCHANGED <<index, lookups>>
    ELSE /\ actions' = Append(actions, r.action)
         /\ index' = index + 1
         /\ lookups' = lookups \o Tagged(index, r.lookups)
         /\ pc' = pc

\* one iteration of the loop over parsed_actions
ProcessNext ==
    /\ pc = "loop"
    /\ ~ NotIterable(parsed_actions)
    /\ index <= Len(parsed_actions.items)
    /\ \E outcome \in StoreOutcomesFor(variant, vectorstore, parsed_actions.items[index]) :
         /\ Iterate(ProcessAction(variant, vectorstore, parsed_actions.items[index], outcome))
         /\ failure' = Cause(variant, vectorstore, parsed_actions.items[index], outcome,
                             ProcessAction(variant, vectorstore,
                                           parsed_actions.items[index], outcome))
    /\ UNCHANGED <<variant, vectorstore, image_data, vision, room_description,
                   ai_output, parsed_actions, call>>

\* the loop ends: the list is exhausted, or the value cannot be iterated
FinishLoop ==
    /\ pc = "loop"
    /\ \/ /\ NotIterable(parsed_actions)
          /\ actions' = InternalError(actions)
          /\ failure' = "other"
       \/ /\ ~ NotIterable(parsed_actions)
          /\ index > Len(parsed_actions.items)
          /\ actions' = actions
          /\ failure' = failure
    /\ pc' = "done"
    /\ UNCHANGED <<variant, vectorstore, image_data, vision, room_description,
                   ai_output, parsed_actions, index, lookups, call>>

Next ==
    \/ ModuleInit
    \/ Receive
    \/ DescribeImage
    \/ InvokeLlm
    \/ ParseReply
    \/ ProcessNext
    \/ FinishLoop

Spec == Init /\ [][Next]_vars

(***************************************************************************)
(* Direct calls: the price extraction and the lookups applied to given     *)
(* arguments, outside a request.  The service itself stays as imported.    *)
(***************************************************************************)
service == <<variant, vectorstore, pc, image_data, vision, room_description,
             actions, ai_output, parsed_actions, index, lookups, failure>>

NotStarted ==
    /\ variant = "table"
    /\ vectorstore = FALSE
    /\ pc = "import"
    /\ image_data = FALSE
    /\ vision = "none"
    /\ room_description = ""
    /\ actions = <<>>
    /\ ai_output = EmptyArray
    /\ parsed_actions = EmptyArray
    /\ index = 1
    /\ lookups = <<>>
    /\ failure = "none"

\* the parts a search query is put together from: what comes before the
\* price phrase, the keyword, the amount and the currency code, each with
\* the direction, value or code it stands for
Prefixes == {"", "watch ", "over budget "}
Keywords ==
    { [text |-> "under", direction |-> "under"], [text |-> "Under", direction |-> "under"],
      [text |-> "over", direction |-> "over"], [text |-> "OVER", direction |-> "over"],
      [text |-> "", direction |-> ""] }
Gaps == {"", " "}
Amounts ==
    { [text |-> "100", plain |-> TRUE, value |-> Price(100, 0)],
      [text |-> "200", plain |-> TRUE, value |-> Price(200, 0)],
      [text |-> "50", plain |-> TRUE, value |-> Price(50, 0)],
      [text |-> "19.99", plain |-> TRUE, value |-> Price(19, 990000000)],
      [text |-> "$19.99", plain |-> FALSE, value |-> Price(0, 0)] }
Codes ==
    { [text |-> "", code |-> "USD"], [text |-> "EUR", code |-> "EUR"],
      [text |-> "eur", code |-> "EUR"], [text |-> "JPY", code |-> "JPY"],
      [text |-> "XYZ", code |-> "USD"] }

QueryParts ==
    [prefix : Prefixes, keyword : Keywords, gap : Gaps, amount : Amounts,
     space : Gaps, code : Codes]

\* the query string made of the parts
QueryText(parts) ==
    parts.prefix \o parts.keyword.text \o parts.gap \o parts.amount.text
      \o parts.space \o parts.code.text

\* a call of the price extraction on a query, before it has run
ExtractPriceCalls ==
    { [fn |-> "extract_price", done |-> FALSE, parts |-> parts,
       query |-> QueryText(parts), result |-> NoBounds] : parts \in QueryParts }

\* the price extraction runs on the query
CallExtractPrice ==
    /\ call.fn = "extract_price"
    /\ ~ call.done
    /\ call' = [call EXCEPT !.done = TRUE, !.result = ExtractPrice(call.query)]
    /\ UNCHANGED service

\* the arguments search_products_in_mock_db is called with
QueryTexts ==
    { NoStr, SomeStr(""), SomeStr("watch"), SomeStr("KITCHEN"), SomeStr("1ymw"),
      SomeStr("watch under 100") }
PriceMins == {NoPrice, SomePrice(Price(0, 0)), SomePrice(Price(18, 990000000))}
PriceMaxes == {NoPrice, SomePrice(Price(100, 0)), SomePrice(Price(18, 990000000))}
CurrencyArgs == {"USD", "EUR"}
Genders == {NoStr, SomeStr("he"), SomeStr("Female")}
Ages == {NoInt, SomeInt(0), SomeInt(10), SomeInt(30)}
Preferences == {NoStr, SomeStr("Kitchen"), SomeStr("gift")}

\* a call of search_products_in_mock_db, before it has run
LookupCalls ==
    { [fn |-> "search_products_in_mock_db", done |-> FALSE, query_text |-> q,
       price_min |-> lo, price_max |-> hi, currency_code |-> c,
       gender |-> g, age |-> a, preferences |-> p, result |-> <<>>] :
         q \in QueryTexts, lo \in PriceMins, hi \in PriceMaxes, c \in CurrencyArgs,
         g \in Genders, a \in Ages, p \in Preferences }

\* search_products_in_mock_db runs on the arguments
CallLookup ==
    /\ call.fn = "search_products_in_mock_db"
    /\ ~ call.done
    /\ call' = [call EXCEPT !.done = TRUE,
                            !.result = search_products_in_mock_db(
                                call.query_text, call.price_min, call.price_max,
                                call.currency_code, call.gender, call.age,
                                call.preferences)]
    /\ UNCHANGED service

\* the search action the model gives for a query
SearchActionFor(parts) ==
    ActionObject(SomeStr("search"), SomeStr(QueryText(parts)), ModelIds, NoStr,
                 NoDetails, "")

\* the search branch of the table variant, before it has run on an action
SearchTableCalls ==
    { [fn |-> "search_table", done |-> FALSE, parts |-> parts,
       result |-> Done(SearchActionFor(parts), <<>>)] : parts \in QueryParts }

\* the search branch of the table variant runs on the action
CallSearchTable ==
    /\ call.fn = "search_table"
    /\ ~ call.done
    /\ call' = [call EXCEPT !.done = TRUE, !.result = SearchTable(call.result.action)]
    /\ UNCHANGED service

\* what the store ranks for a query
Rankings == {<<>>, StoreDocs, LongRanking}

\* the search branch of the vector variant, before it has run on an action
SearchVectorCalls ==
    { [fn |-> "search_vector", done |-> FALSE, parts |-> parts, ranking |-> ranking,
       result |-> Done(SearchActionFor(parts), <<>>)] :
         parts \in QueryParts, ranking \in Rankings }

\* the search branch of the vector variant runs on the action; the store
\* answers with its ranking
CallSearchVector ==
    /\ call.fn = "search_vector"
    /\ ~ call.done
    /\ call' = [call EXCEPT !.done = TRUE,
                            !.result = SearchVector(call.result.action,
                                                    CallReturns(call.ranking))]
    /\ UNCHANGED service

CallsInit ==
    /\ NotStarted
    /\ call \in ExtractPriceCalls \cup LookupCalls \cup SearchTableCalls
                 \cup SearchVectorCalls

CallsNext ==
    \/ CallExtractPrice
    \/ CallLookup
    \/ CallSearchTable
    \/ CallSearchVector

Calls == CallsInit /\ [][CallsNext]_vars

(***************************************************************************)
(* Vocabulary of the properties.                                           *)
(***************************************************************************)
\* the handler has returned jsonify({"actions": actions})
Returned == pc = "done"

\* number of actions the image step put before the model-derived ones
Offset == IF vision = "none" THEN 0 ELSE 1

\* the i-th element of the model's array has been processed and appended
Processed(i) ==
    /\ pc \in {"loop", "done"}
    /\ parsed_actions.type = "array"
    /\ i \in 1..(index - 1)

\* the model's i-th action and the output action made from it
ModelAction(i) == parsed_actions.items[i]
OutputAction(i) == actions[i + Offset]

\* the lookups made for the model's i-th action
LookupsFor(i) == {n \in 1..Len(lookups) : lookups[n].index = i}

\* a decoded reply that is valid JSON and not an array
NotArrayTypes == {"null", "bool", "number", "string", "object"}

(***************************************************************************)
(* C1.  No image, reply text that is not JSON: the returned list is        *)
(* exactly one response action carrying the apology; no internal-error     *)
(* action.                                                                 *)
(***************************************************************************)
C1_UndecodableReplyOneApology ==
    (Returned /\ ~ image_data /\ ai_output.type = "invalid")
        => actions = <<ResponseAction(DecodeErrorMsg)>>

C1_Witness ==
    /\ Returned
    /\ ~ image_data
    /\ ai_output.type = "invalid"
    /\ Len(actions) = 1

(***************************************************************************)
(* C2.  No image, reply that is valid JSON but no array: exactly one       *)
(* response action with the apology and nothing else; the decoded value    *)
(* is never iterated and no second action is appended.                     *)
(***************************************************************************)
C2_NotArrayOneApology ==
    (Returned /\ ~ image_data /\ ai_output.type \in NotArrayTypes)
        => actions = <<ResponseAction(NotArrayMsg)>>

(***************************************************************************)
(* C3.  No exception crosses the request boundary, whatever the request    *)
(* body is: the handler never ends outside a returned action list.         *)
(***************************************************************************)
C3_NoExceptionCrossesBoundary == pc # "raised"

(***************************************************************************)
(* C4.  Every search action in the output has product_ids equal to the     *)
(* result of a catalog lookup made for it with the query, price bounds     *)
(* and currency extracted from its query; in both variants and with the    *)
(* store handle None.                                                      *)
(***************************************************************************)
C4_SearchIdsAreLookupResult ==
    \A j \in 1..Len(actions) :
        actions[j].task = SomeStr("search") =>
            \E n \in LookupsFor(j - Offset) :
                /\ lookups[n].call.query_text = SomeStr(QueryOf(actions[j]))
                /\ lookups[n].call.price_min = ExtractPrice(QueryOf(actions[j])).price_min
                /\ lookups[n].call.price_max = ExtractPrice(QueryOf(actions[j])).price_max
                /\ lookups[n].call.currency_code
                       = ExtractPrice(QueryOf(actions[j])).currency_code
                /\ actions[j].product_ids = IdList(lookups[n].call.result)

(***************************************************************************)
(* C5.  Every recommend and every empty-cart action of the model comes     *)
(* out with product_ids = [], whatever ids the model supplied; in both     *)
(* variants and with the store handle None.                                *)
(***************************************************************************)
C5_RecommendEmptyCartNoIds ==
    \A i \in 1..Len(parsed_actions.items) :
        (/\ Processed(i)
         /\ ModelAction(i).task \in {SomeStr("recommend"), SomeStr("empty-cart")})
            => OutputAction(i).product_ids = IdList(<<>>)

(***************************************************************************)
(* C6.  A gift-recommendation action with a missing detail comes out as    *)
(* a response action with product_ids = [] and a message asking for the    *)
(* first missing detail in the order gender, age, preferences; no catalog  *)
(* lookup is made for it.                                                  *)
(***************************************************************************)
\* the question for the first detail person_details lacks
FirstMissingQuestion(pd) ==
    IF ~ pd.gender.has THEN AskGenderMsg
    ELSE IF ~ pd.age.has THEN AskAgeMsg
    ELSE AskPreferencesMsg

\* person_details is a dictionary (or absent: {}) that lacks a detail
SomeDetailMissing(pd) ==
    /\ pd.kind # "other"
    /\ ~ pd.gender.has \/ ~ pd.age.has \/ ~ pd.preferences.has

C6_IncompleteGiftAsksFirstMissing ==
    \A i \in 1..Len(parsed_actions.items) :
        (/\ Processed(i)
         /\ ModelAction(i).task = SomeStr("gift-recommendation")
         /\ SomeDetailMissing(ModelAction(i).person_details))
            => /\ OutputAction(i).task = SomeStr("response")
               /\ OutputAction(i).product_ids = IdList(<<>>)
               /\ OutputAction(i).message
                      = SomeStr(FirstMissingQuestion(ModelAction(i).person_details))
               /\ LookupsFor(i) = {}

C8_CompareKeepsIdsHasMessage ==
    \A i \in 1..Len(parsed_actions.items) :
        (Processed(i) /\ ModelAction(i).task = SomeStr("compare"))
            => /\ OutputAction(i).product_ids = ModelAction(i).product_ids
               /\ TruthyStr(OutputAction(i).message)
               /\ TruthyStr(ModelAction(i).message)
                      => OutputAction(i).message = ModelAction(i).message

(***************************************************************************)
(* C9.  In every response, product_ids (when present) is a list of         *)
(* identifier strings and holds no product object, also for add-to-cart,   *)
(* compare and unknown tasks.                                              *)
(***************************************************************************)
C9_ProductIdsAreStrings ==
    \A j \in 1..Len(actions) :
        actions[j].product_ids.kind # "absent" =>
            /\ actions[j].product_ids.kind = "list"
            /\ \A m \in 1..Len(actions[j].product_ids.v) : ~ actions[j].product_ids.v[m].obj

(***************************************************************************)
(* C10.  A failing vision call is caught where it is made, in both         *)
(* variants: one apology is appended, the room description stays empty     *)
(* and the handler goes on to the model call; the request does not end     *)
(* with the internal-error action because of it.                           *)
(***************************************************************************)
C10_VisionFailureContinues ==
    [][(pc = "vision" /\ vision' = "failed")
          => /\ actions' = Append(actions, ResponseAction(VisionFailMsg))
             /\ room_description' = ""
             /\ pc' = "llm"]_vars

(***************************************************************************)
(* C11.  When the language-model call or a catalog lookup fails, the       *)
(* action being processed and all later ones are not appended, and         *)
(* exactly one internal-error response action is appended, as the last     *)
(* element of the returned list; no returned list ever holds more than     *)
(* one internal-error action.                                              *)
(***************************************************************************)
\* the positions of the output that hold the internal-error action
InternalErrors ==
    {j \in 1..Len(actions) : actions[j] = ResponseAction(InternalErrorMsg)}

C11_FailureAbortsWithOneError ==
    /\ Cardinality(InternalErrors) <= 1
    /\ (Returned /\ failure \in {"llm", "lookup"}) =>
          /\ InternalErrors = {Len(actions)}
          /\ failure = "llm" => Len(actions) = Offset + 1
          /\ failure = "lookup" =>
                /\ parsed_actions.type = "array"
                /\ index <= Len(parsed_actions.items)
                /\ Len(actions) = Offset + index

C11_Witness ==
    /\ Returned
    /\ failure = "lookup"
    /\ image_data
    /\ index = 1
    /\ Len(parsed_actions.items) = 2
    /\ Len(actions) = 2

(***************************************************************************)
(* C12.  When the reply decodes to an array of N action objects and no     *)
(* collaborator (vision, language model, catalog lookup) fails, the        *)
(* returned list is the caption response action first if and only if an    *)
(* image was supplied, followed by exactly N actions, the i-th made from   *)
(* the model's i-th action: none dropped, duplicated or reordered.         *)
(***************************************************************************)
\* the reply is an array whose elements are all action objects
ArrayOfActionObjects ==
    /\ ai_output.type = "array"
    /\ \A i \in 1..Len(ai_output.items) : ai_output.items[i].isdict

\* no collaborator call of this request raised
NoCollaboratorFailed == vision # "failed" /\ failure \notin {"vision", "llm", "lookup"}

\* out is made from the model's action a: the keys the normalizer never
\* writes are a's, and the task is a's or rewritten to response
MadeFrom(out, a) ==
    /\ out.isdict
    /\ out.query = a.query
    /\ out.person_details = a.person_details
    /\ out.rest = a.rest
    /\ out.task \in {a.task, SomeStr("response")}

C12_OneOutputPerModelAction ==
    (Returned /\ ArrayOfActionObjects /\ NoCollaboratorFailed) =>
        /\ Len(actions) = Offset + Len(ai_output.items)
        /\ image_data <=> Offset = 1
        /\ image_data => actions[1] = ResponseAction(VisionOkMsg(room_description))
        /\ \A i \in 1..Len(ai_output.items) :
               MadeFrom(actions[i + Offset], ai_output.items[i])

(***************************************************************************)
(* C13.  Every model action whose task is add-to-cart, view-cart,          *)
(* checkout, update-context or response is appended to the output with     *)
(* every field exactly as the model supplied it; the loop never stops at   *)
(* such an action.                                                         *)
(***************************************************************************)
PassThroughTasks ==
    { SomeStr("add-to-cart"), SomeStr("view-cart"), SomeStr("checkout"),
      SomeStr("update-context"), SomeStr("response") }

\* the loop was left through the except while at position index
StoppedInLoop ==
    /\ Returned
    /\ parsed_actions.type = "array"
    /\ index <= Len(parsed_actions.items)

C13_PassThroughUnchanged ==
    /\ \A i \in 1..Len(parsed_actions.items) :
          (/\ Processed(i)
           /\ ModelAction(i).isdict
           /\ ModelAction(i).task \in PassThroughTasks)
              => OutputAction(i) = ModelAction(i)
    /\ StoppedInLoop =>
          ~ (ModelAction(index).isdict /\ ModelAction(index).task \in PassThroughTasks)

C13_Witness ==
    /\ Returned
    /\ Len(parsed_actions.items) = 2
    /\ Processed(2)
    /\ ModelAction(1).task = SomeStr("add-to-cart")
    /\ ModelAction(1).product_ids = ModelObjects
    /\ ModelAction(2).task = SomeStr("update-context")
    /\ Len(actions) = Offset + 2

(***************************************************************************)
(* C14.  Price extraction: "under 100" gives price_max = 100, currency     *)
(* USD, no price_min; "over 50 EUR" gives price_min = 50, currency EUR,    *)
(* no price_max; "under $19.99" matches nothing.  In general under <n>     *)
(* sets only price_max = n, over <n> sets only price_min = n, in either    *)
(* letter case, and the currency is USD unless a listed code follows the   *)
(* number.                                                                 *)
(***************************************************************************)
\* the price extraction has run on a query
Extracted == call.fn = "extract_price" /\ call.done

\* the parts hold a keyword followed by a plain number
HasPricePhrase(parts) == parts.keyword.direction # "" /\ parts.amount.plain

C14_PriceExtraction ==
    Extracted =>
        /\ call.query = "under 100" =>
              call.result = [price_min |-> NoPrice,
                             price_max |-> SomePrice(Price(100, 0)),
                             currency_code |-> "USD"]
        /\ call.query = "over 50 EUR" =>
              call.result = [price_min |-> SomePrice(Price(50, 0)),
                             price_max |-> NoPrice,
                             currency_code |-> "EUR"]
        /\ call.query = "under $19.99" => call.result = NoBounds
        /\ (HasPricePhrase(call.parts) /\ call.parts.keyword.direction = "under") =>
              /\ call.result.price_max = SomePrice(call.parts.amount.value)
              /\ call.result.price_min = NoPrice
              /\ call.result.currency_code = call.parts.code.code
        /\ (HasPricePhrase(call.parts) /\ call.parts.keyword.direction = "over") =>
              /\ call.result.price_min = SomePrice(call.parts.amount.value)
              /\ call.result.price_max = NoPrice
              /\ call.result.currency_code = call.parts.code.code
        /\ ~ HasPricePhrase(call.parts) => call.result = NoBounds

C14_Witness ==
    /\ Extracted
    /\ call.query = "watch OVER19.99 eur"
    /\ call.result.price_min = SomePrice(Price(19, 990000000))
    /\ call.result.currency_code = "EUR"

(***************************************************************************)
(* C15.  search_products_in_mock_db returns, in catalog order and without  *)
(* duplicates, exactly the ids of the products that pass the text filter,  *)
(* the price filter and the gift filter; with price_max = 100 USD the      *)
(* 109.99 Watch is never returned.                                         *)
(***************************************************************************)
\* search_products_in_mock_db has run
LookedUp == call.fn = "search_products_in_mock_db" /\ call.done

\* needle is a substring of text, letter case aside
InText(text, needle) == Contains(Lower(text), Lower(needle))

\* the query is a substring of id, name or description; passes without query
TextFilter(product, query_text) ==
    TruthyStr(query_text) =>
        \/ InText(product.id, query_text.v)
        \/ InText(product.name, query_text.v)
        \/ InText(product.description, query_text.v)

\* with a bound: same currency, price >= price_min and <= price_max
PriceFilter(product, price_min, price_max, currency_code) ==
    (price_min.has \/ price_max.has) =>
        /\ product.price_usd_currency_code = currency_code
        /\ price_min.has => ~ PriceLess(ProductPrice(product), price_min.v)
        /\ price_max.has => ~ PriceLess(price_max.v, ProductPrice(product))

\* gender and preferences in name or description; the age rule
GiftFilter(product, gender, age, preferences) ==
    /\ TruthyStr(gender) =>
          InText(product.name, gender.v) \/ InText(product.description, gender.v)
    /\ TruthyStr(preferences) =>
          InText(product.name, preferences.v) \/ InText(product.description, preferences.v)
    /\ (age.has /\ age.v < 18) => ~ InText(product.description, "adult")
    /\ (age.has /\ age.v >= 18) => ~ InText(product.description, "kid")

\* the catalog positions of the products that pass all three filters
Passing ==
    {n \in 1..Len(MOCK_DATABASE) :
        /\ TextFilter(MOCK_DATABASE[n], call.query_text)
        /\ PriceFilter(MOCK_DATABASE[n], call.price_min, call.price_max, call.currency_code)
        /\ GiftFilter(MOCK_DATABASE[n], call.gender, call.age, call.preferences)}

\* the catalog position of the i-th returned id
PositionOf(i) == CHOOSE n \in 1..Len(MOCK_DATABASE) : MOCK_DATABASE[n].id = call.result[i]

C15_LookupReturnsPassingIds ==
    LookedUp =>
        /\ \A i \in 1..Len(call.result) :
              \E n \in Passing : MOCK_DATABASE[n].id = call.result[i]
        /\ \A n \in Passing : \E i \in 1..Len(call.result) :
              call.result[i] = MOCK_DATABASE[n].id
        /\ \A i, j \in 1..Len(call.result) : i < j => PositionOf(i) < PositionOf(j)
        /\ (call.price_max = SomePrice(Price(100, 0)) /\ call.currency_code = "USD") =>
              \A i \in 1..Len(call.result) : call.result[i] # "1YMWWN1N4O"

C15_Witness ==
    /\ LookedUp
    /\ call.query_text = NoStr
    /\ call.price_min = NoPrice
    /\ call.price_max = SomePrice(Price(100, 0))
    /\ call.currency_code = "USD"
    /\ call.gender = SomeStr("he")
    /\ call.age = SomeInt(30)
    /\ call.preferences = NoStr
    /\ Len(call.result) > 1

(***************************************************************************)
(* C16.  Vector variant: the product_ids of a search action are the ids    *)
(* of the top-10 similarity results that pass the price post-filter, in    *)
(* result order.  Without an extracted bound every result passes,          *)
(* whatever its currency; with a bound a result is kept if and only if     *)
(* its currency equals the filter currency and its price satisfies the     *)
(* bound, and nothing falls back to the unfiltered results.                *)
(***************************************************************************)
\* the search branch of the vector variant has run
SearchedVector == call.fn = "search_vector" /\ call.done

\* the first ten of the store's ranking
TopTen(ranking) == IF Len(ranking) <= 10 THEN ranking ELSE SubSeq(ranking, 1, 10)

\* the document is kept under the price phrase of the parts
Kept(doc, parts) ==
    HasPricePhrase(parts) =>
        /\ doc.price_usd_currency_code = parts.code.code
        /\ parts.keyword.direction = "under" =>
              ~ PriceLess(parts.amount.value, Price(doc.price_usd_units, doc.price_usd_nanos))
        /\ parts.keyword.direction = "over" =>
              ~ PriceLess(Price(doc.price_usd_units, doc.price_usd_nanos), parts.amount.value)

\* the ids of the kept documents among the first ten, in result order
KeptIds(ranking, parts) ==
    LET kept(doc) == Kept(doc, parts)
        docs == SelectSeq(TopTen(ranking), kept)
    IN  [i \in 1..Len(docs) |-> docs[i].id]

C16_VectorSearchPostFilter ==
    SearchedVector =>
        /\ ~ call.result.raised
        /\ call.result.action.product_ids = IdList(KeptIds(call.ranking, call.parts))

C16_Witness ==
    /\ SearchedVector
    /\ call.ranking = LongRanking
    /\ QueryText(call.parts) = "watch under 100"
    /\ call.result.action.product_ids
           = IdList(<<"A", "D", "E", "F", "G", "H", "I", "J">>)

(***************************************************************************)
(* C17.  Table variant: the text handed to the catalog lookup for a        *)
(* search action is the full query string, price phrase included; so for   *)
(* every search action whose query matches the price pattern the resolved  *)
(* product_ids against the 9-item catalog is the empty list.               *)
(***************************************************************************)
\* the search branch of the table variant has run
SearchedTable == call.fn = "search_table" /\ call.done

C17_PricePhraseQueryFindsNothing ==
    SearchedTable =>
        /\ Len(call.result.lookups) = 1
        /\ call.result.lookups[1].query_text = SomeStr(QueryText(call.parts))
        /\ HasPricePhrase(call.parts) =>
              /\ call.result.lookups[1].price_min.has \/ call.result.lookups[1].price_max.has
              /\ call.result.action.product_ids = IdList(<<>>)

C17_Witness ==
    /\ SearchedTable
    /\ QueryText(call.parts) = "watch under 200"
    /\ call.result.lookups[1].price_max = SomePrice(Price(200, 0))
    /\ call.result.action.product_ids = IdList(<<>>)

====
